---- MODULE Spec2Model ----
(***************************************************************************)
(* Auth service: credential validation, login throttle, refresh-token      *)
(* rotation with reuse detection, force logout, over a Redis session       *)
(* store.  Time is counted in seconds, the unit of a JWT's iat/exp and of  *)
(* the Redis TTLs.                                                         *)
(***************************************************************************)
EXTENDS Integers, Sequences, FiniteSets, TLC

VARIABLES store, now, issued, dead, fails, forcedAt, lookups, last, reqs, dummyHash

vars == <<store, now, issued, dead, fails, forcedAt, lookups, last, reqs, dummyHash>>

(* ------------------------------ bounds -------------------------------- *)
\* number of distinct token pairs handed out in one behaviour
MaxIssued == 2
\* last instant of the clock
MaxNow == 900
\* number of requests of SpecRace that are in flight together
MaxReq == 2

(* ------------------------- program constants -------------------------- *)
MAX_LOGIN_ATTEMPTS == 10
LOGIN_ATTEMPTS_TTL == 600
ACCESS_TOKEN_TTL == 900
REFRESH_TOKEN_TTL == 604800
REVOKED_TOKEN_TRACKING_TTL == 3600
FORCE_LOGOUT_TTL == 900
REFRESH_THRESHOLD == 300
SECONDS_PER_MINUTE == 60
PROFILE_CACHE_TTL == 900
AUDIT_THROTTLE_TTL == 300

\* the instants the clock visits: the same second, the next second, and
\* instants on either side of the TTLs above
Times == {t \in {0, 1, 601, 900, 3600} : t <= MaxNow}

(* ------------------- durable credential tables (read-only) ------------ *)
Roles == {"admin", "operator", "director", "master"}
NoPassword == ""
Working == "works"

Users ==
  { [role |-> "admin",    id |-> 1, login |-> "root", password |-> "pw",
     status |-> "",         statusWork |-> ""],
    [role |-> "operator", id |-> 1, login |-> "olga", password |-> "pw",
     status |-> "active",   statusWork |-> ""],
    [role |-> "operator", id |-> 2, login |-> "oleg", password |-> "pw",
     status |-> "inactive", statusWork |-> ""],
    [role |-> "director", id |-> 3, login |-> "dora", password |-> "pw",
     status |-> "",         statusWork |-> ""],
    [role |-> "master",   id |-> 4, login |-> "max",  password |-> "pw",
     status |-> "",         statusWork |-> Working],
    [role |-> "master",   id |-> 5, login |-> "mia",  password |-> "pw",
     status |-> "",         statusWork |-> "fired"],
    [role |-> "master",   id |-> 6, login |-> "moe",  password |-> NoPassword,
     status |-> "",         statusWork |-> Working] }

NoUser == [role |-> "", id |-> 0, login |-> "", password |-> "",
           status |-> "", statusWork |-> ""]

\* prisma.<table>.findUnique({ where: { login } })
FindUnique(role, login) ==
  LET hit == {u \in Users : u.role = role /\ u.login = login}
  IN  IF hit = {} THEN NoUser ELSE CHOOSE u \in hit : TRUE

\* prisma.<table>.findUnique({ where: { id }, select: {...} }) with the role
\* added: the profile payload, which has no password in it
NoProfile == [role |-> "", id |-> 0, login |-> ""]
FindProfile(role, id) ==
  LET hit == {u \in Users : u.role = role /\ u.id = id}
  IN  IF hit = {} THEN NoProfile
      ELSE LET u == CHOOSE u \in hit : TRUE
           IN  [role |-> role, id |-> u.id, login |-> u.login]

\* JSON.stringify / JSON.parse of a profile payload
JsonStringify(value) == [json |-> value]
JsonParse(text) == text.json

\* the hash generated at start from a random seed: no submitted password
\* compares equal to it
DummyHash == "dummy"
\* the static hash initializeDummyHash falls back to, and the field before
\* either has been assigned (undefined)
FallbackHash == "fallback"
Unset == "undefined"

\* a comparison made against the dummy hash whatever hash it is handed
BcryptCompareAgainstDummy(password, hash) == password = DummyHash
\* bcrypt.compare(password, hash): a hash is written as the password it is of
BcryptCompare(password, hash) == password = hash

(* ------------------------------ tokens -------------------------------- *)
\* jwtService.sign(payload): the payload {sub, login, role, name, cities} is a
\* function of the credential record, iat is the second of signing, exp is
\* iat + TTL and the HMAC signature is a function of those; two tokens signed
\* for one principal with one secret in one second are the same string.
Principal(u) == [id |-> u.id, role |-> u.role]
Principals == {Principal(u) : u \in Users}
Token == [sub : {u.id : u \in Users}, role : Roles, iat : Times]
NoToken == [sub |-> 0, role |-> "", iat |-> 0]
Sign(p, t) == [sub |-> p.id, role |-> p.role, iat |-> t]
Owner(tok) == [id |-> tok.sub, role |-> tok.role]

\* the name and the cities of a credential record
Name(u) == <<"name", u.login>>
Cities(u) == IF u.role \in {"director", "master"} THEN {u.id} ELSE {}

\* the payload login() hands to jwtService.sign
LoginPayload(u) ==
  [sub |-> u.id, login |-> u.login, role |-> u.role, name |-> Name(u), cities |-> Cities(u)]
NoPayload == [sub |-> 0, login |-> "", role |-> "", name |-> <<>>, cities |-> {}]

\* jwtService.verify(token) without iat and exp: the claims the token carries,
\* those of the credential record it was signed for
Payload(tok) ==
  LET hit == {u \in Users : Principal(u) = Owner(tok)}
  IN  IF hit = {} THEN NoPayload ELSE LoginPayload(CHOOSE u \in hit : TRUE)

\* the payload refreshToken() hands to jwtService.sign
NewPayload(payload) ==
  [sub |-> payload.sub, login |-> payload.login, role |-> payload.role,
   name |-> payload.name, cities |-> payload.cities]

\* jwtService.verify / passport-jwt with ignoreExpiration: false
AccessUnexpired(tok, t) == t < tok.iat + ACCESS_TOKEN_TTL
RefreshUnexpired(tok, t) == t < tok.iat + REFRESH_TOKEN_TTL

(* --------------------------- session store ---------------------------- *)
\* rt      refresh_token:<role>:<id>:<token> keys, each with its expiry
\* uset    user_tokens:<role>:<id> sets, members and expiry
\* revoked revoked_token:<role>:<id>:<token> keys, each with its expiry
\* flag    force_logout:<role>:<id> expiry, 0 when the key is absent
\* att     login_attempts:<login>:<role> counter: n = 0 when the key is
\*         absent, exp = NoExpiry when the key has no TTL
\* cache   profile:<role>:<id> value and expiry, exp = 0 when the key is absent
\* audit   audit:throttle:<userId>:<eventType> expiry, 0 when the key is absent
NoExpiry == -1
Identifier(login, role) == <<login, role>>
LoginNames == {u.login : u \in Users} \cup {"nobody"}
RoleInputs == Roles \cup {"guest"}
Identifiers == {Identifier(l, r) : l \in LoginNames, r \in RoleInputs}

\* the audit events that are written at most once per throttle window and user
ThrottledEvents == {"auth.profile.access", "auth.token.refresh"}
ThrottleKeys == {u.id : u \in Users} \X ThrottledEvents

EmptyStore ==
  [rt      |-> {},
   uset    |-> [p \in Principals |-> [m |-> {}, exp |-> 0]],
   revoked |-> {},
   flag    |-> [p \in Principals |-> 0],
   att     |-> [i \in Identifiers |-> [n |-> 0, exp |-> 0]],
   cache   |-> [p \in Principals |-> [val |-> JsonStringify(NoProfile), exp |-> 0]],
   audit   |-> [k \in ThrottleKeys |-> 0]]

Live(s) == {x.tok : x \in s.rt}
Tombstoned(s) == {x.tok : x \in s.revoked}

\* SREM that empties a set deletes the key
SetWithout(set, tok) ==
  IF set.m \ {tok} = {} THEN [m |-> {}, exp |-> 0]
  ELSE [set EXCEPT !.m = @ \ {tok}]

\* a key is gone once its TTL has run out
Expire(s, t) ==
  [rt      |-> {x \in s.rt : x.exp > t},
   uset    |-> [p \in Principals |->
                 IF s.uset[p].m # {} /\ s.uset[p].exp > t THEN s.uset[p]
                 ELSE [m |-> {}, exp |-> 0]],
   revoked |-> {x \in s.revoked : x.exp > t},
   flag    |-> [p \in Principals |-> IF s.flag[p] > t THEN s.flag[p] ELSE 0],
   att     |-> [i \in Identifiers |->
                 IF s.att[i].n > 0 /\ (s.att[i].exp = NoExpiry \/ s.att[i].exp > t)
                 THEN s.att[i] ELSE [n |-> 0, exp |-> 0]],
   cache   |-> [p \in Principals |->
                 IF s.cache[p].exp = NoExpiry \/ s.cache[p].exp > t THEN s.cache[p]
                 ELSE [val |-> JsonStringify(NoProfile), exp |-> 0]],
   audit   |-> [k \in ThrottleKeys |-> IF s.audit[k] > t THEN s.audit[k] ELSE 0]]

(* --------------------------- RedisService ----------------------------- *)
\* A handler numbers its store calls 1, 2, ... in the order it makes them; F is
\* the set of calls that find the store unreachable and raise.
Call(F, k, value) == [err |-> k \in F, val |-> value]

\* a wrapper that hands back what the operation would have produced, whether
\* or not it raised
SafeExecuteUnguarded(res, fallbackValue) == res.val
\* safeExecute(operation, fallbackValue, operationName)
SafeExecute(res, fallbackValue) == IF res.err THEN fallbackValue ELSE res.val

\* one refresh token per principal: the save replaces the principal's records
SaveRefreshTokenSingle(s, tok, ttlSeconds, t) ==
  [s EXCEPT !.rt = {x \in @ : Owner(x.tok) # Owner(tok)}
                     \cup {[tok |-> tok, exp |-> t + ttlSeconds]},
            !.uset[Owner(tok)] = [m |-> {tok}, exp |-> t + ttlSeconds]]
\* pipeline: SETEX tokenKey, SADD userTokensSet, EXPIRE userTokensSet
SaveRefreshToken(s, tok, ttlSeconds, t) ==
  [s EXCEPT !.rt = {x \in @ : x.tok # tok} \cup {[tok |-> tok, exp |-> t + ttlSeconds]},
            !.uset[Owner(tok)] = [m |-> @.m \cup {tok}, exp |-> t + ttlSeconds]]

IsRefreshTokenValid(s, tok) == tok \in Live(s)

\* a teardown whose keys leave out the role: it takes the tokens and sets of
\* every principal with the same id
RevokeAllUserTokensById(s, p) ==
  LET tokens == s.uset[p].m
  IN  IF tokens = {} THEN s
      ELSE [s EXCEPT !.rt = {x \in @ : x.tok.sub # p.id},
                     !.uset = [q \in Principals |->
                                 IF q.id = p.id THEN [m |-> {}, exp |-> 0] ELSE @[q]]]
\* a teardown that deletes the attempt counters along with the tokens
RevokeAllUserTokensAndCounters(s, p) ==
  LET tokens == s.uset[p].m
  IN  IF tokens = {} THEN s
      ELSE [s EXCEPT !.rt = {x \in @ : x.tok \notin tokens},
                     !.uset[p] = [m |-> {}, exp |-> 0],
                     !.att = [i \in Identifiers |-> [n |-> 0, exp |-> 0]]]
\* SMEMBERS, then one pipeline: DEL of every member's key and DEL of the set
RevokeAllUserTokens(s, p) ==
  LET tokens == s.uset[p].m
  IN  IF tokens = {} THEN s
      ELSE [s EXCEPT !.rt = {x \in @ : x.tok \notin tokens},
                     !.uset[p] = [m |-> {}, exp |-> 0]]

\* revokeRefreshToken in its place: DEL and SREM, no tracking key
RevokeRefreshTokenUntracked(s, tok, trackingTTL, t) ==
  [s EXCEPT !.rt = {x \in @ : x.tok # tok},
            !.uset[Owner(tok)] = SetWithout(@, tok)]
\* pipeline: DEL tokenKey, SREM userTokensSet, SETEX trackingKey
RevokeRefreshTokenWithTracking(s, tok, trackingTTL, t) ==
  [s EXCEPT !.rt = {x \in @ : x.tok # tok},
            !.uset[Owner(tok)] = SetWithout(@, tok),
            !.revoked = {x \in @ : x.tok # tok} \cup {[tok |-> tok, exp |-> t + trackingTTL]}]

\* a lookup that takes every token without a record for a revoked one
WasTokenRecentlyRevokedOrUnknown(s, tok) == tok \notin Live(s)
\* EXISTS revoked_token:<role>:<id>:<token>
WasTokenRecentlyRevoked(s, tok) == tok \in Tombstoned(s)

\* the flag written with the throttle window's lifetime instead of its own
ForceLogoutUserShortLived(s, p, ttlSeconds, t) ==
  [s EXCEPT !.flag[p] = t + LOGIN_ATTEMPTS_TTL]
\* SETEX force_logout:<role>:<id> ttlSeconds
ForceLogoutUser(s, p, ttlSeconds, t) == [s EXCEPT !.flag[p] = t + ttlSeconds]

IsUserForcedLogout(s, p) == s.flag[p] # 0

\* an attempt recorded the same way, that answers the count before the INCR
RecordLoginAttemptAnswersOld(s, identifier, t) ==
  LET attempts == s.att[identifier].n + 1
  IN  [store |-> [s EXCEPT !.att[identifier] =
                     [n |-> attempts,
                      exp |-> IF attempts = 1 THEN t + LOGIN_ATTEMPTS_TTL ELSE @.exp]],
       attempts |-> attempts - 1]
\* INCR, and EXPIRE only when the INCR answered 1
RecordLoginAttempt(s, identifier, t) ==
  LET attempts == s.att[identifier].n + 1
  IN  [store |-> [s EXCEPT !.att[identifier] =
                     [n |-> attempts,
                      exp |-> IF attempts = 1 THEN t + LOGIN_ATTEMPTS_TTL ELSE @.exp]],
       attempts |-> attempts]

GetLoginAttempts(s, identifier) == s.att[identifier].n

\* locked only once the count has gone past the maximum
IsAccountLockedPastMax(s, identifier, maxAttempts) ==
  GetLoginAttempts(s, identifier) > maxAttempts
IsAccountLocked(s, identifier, maxAttempts) ==
  GetLoginAttempts(s, identifier) >= maxAttempts

\* TTL answers -2 for no key and -1 for no expiry; both are reported as 0
GetLockTTL(s, identifier, t) ==
  LET a == s.att[identifier]
      ttl == IF a.n = 0 THEN -2 ELSE IF a.exp = NoExpiry THEN -1 ELSE a.exp - t
  IN  IF ttl > 0 THEN ttl ELSE 0

\* the batch without its DEL of the attempts key
SaveRefreshTokenOnly(s, tok, ttlSeconds, lockIdentifier, t) ==
  SaveRefreshToken(s, tok, ttlSeconds, t)
\* pipeline: SETEX tokenKey, SADD set, EXPIRE set, DEL attemptsKey
SaveRefreshTokenAndResetAttempts(s, tok, ttlSeconds, lockIdentifier, t) ==
  [SaveRefreshToken(s, tok, ttlSeconds, t)
     EXCEPT !.att[lockIdentifier] = [n |-> 0, exp |-> 0]]

\* a set that writes the key without a TTL
SetWithoutTTL(s, p, value, ttlSeconds, t) ==
  [s EXCEPT !.cache[p] = [val |-> value, exp |-> NoExpiry]]
\* set(key, value, ttlSeconds) on profile:<role>:<id>: SETEX when a TTL is
\* given, SET otherwise
Set(s, p, value, ttlSeconds, t) ==
  [s EXCEPT !.cache[p] = [val |-> value,
                          exp |-> IF ttlSeconds # 0 THEN t + ttlSeconds ELSE NoExpiry]]

\* get(key) on profile:<role>:<id>: the value, or null (FALSE) for no key
HasKey(s, p) == s.cache[p].exp # 0
Get(s, p) == s.cache[p].val

\* Math.ceil(seconds / 60)
SecondsToMinutes(seconds) ==
  (seconds + SECONDS_PER_MINUTE - 1) \div SECONDS_PER_MINUTE

\* revokeAllUserTokensViaScan: SCAN refresh_token:<role>:<id>:* (call k), then
\* DEL of the keys found (call k + 1); the set key is left alone
RevokeAllUserTokensViaScan(s, p, F, k) ==
  LET keysToDelete == {x \in s.rt : Owner(x.tok) = p}
  IN  IF k \in F THEN [store |-> s, err |-> TRUE, calls |-> k]
      ELSE IF keysToDelete = {} THEN [store |-> s, err |-> FALSE, calls |-> k]
      ELSE IF k + 1 \in F THEN [store |-> s, err |-> TRUE, calls |-> k + 1]
      ELSE [store |-> [s EXCEPT !.rt = @ \ keysToDelete], err |-> FALSE, calls |-> k + 1]

\* revokeAllUserTokens with its store calls numbered from k: SMEMBERS (k),
\* the DEL pipeline (k + 1), and the SCAN fallback when either raises
RevokeAllCalls(s, p, F, k) ==
  IF k \in F THEN RevokeAllUserTokensViaScan(s, p, F, k + 1)
  ELSE IF s.uset[p].m = {} THEN [store |-> s, err |-> FALSE, calls |-> k]
  ELSE IF k + 1 \in F THEN RevokeAllUserTokensViaScan(s, p, F, k + 2)
  ELSE [store |-> RevokeAllUserTokens(s, p), err |-> FALSE, calls |-> k + 1]

(* ----------------------------- AuditService --------------------------- *)
\* log(entry) at second t, its store calls numbered from k: a throttled event
\* of a user reads the throttle key (call k), returns when it is there, and
\* sets it otherwise (call k + 1); then the row is written to the database
\* inside a try/catch (the write raises when 0 \in F).  rejected: a store
\* call raised, so the promise log() returned is rejected.  wrote: the
\* database write was made.
AuditLog(s, F, t, eventType, userId, k) ==
  IF eventType \in ThrottledEvents /\ userId # 0 THEN
    IF k \in F THEN [store |-> s, rejected |-> TRUE, calls |-> k, wrote |-> FALSE]
    ELSE IF s.audit[<<userId, eventType>>] # 0
      THEN [store |-> s, rejected |-> FALSE, calls |-> k, wrote |-> FALSE]
    ELSE IF k + 1 \in F THEN [store |-> s, rejected |-> TRUE, calls |-> k + 1, wrote |-> FALSE]
    ELSE [store |-> [s EXCEPT !.audit[<<userId, eventType>>] = t + AUDIT_THROTTLE_TTL],
          rejected |-> FALSE, calls |-> k + 1, wrote |-> TRUE]
  ELSE [store |-> s, rejected |-> FALSE, calls |-> k - 1, wrote |-> TRUE]

(* ----------------------------- AuthService ---------------------------- *)
LoginInput == [login : LoginNames, password : {"pw", "bad"}, role : RoleInputs]
NoInput == [login |-> "", password |-> "", role |-> ""]
NoPrincipal == [id |-> 0, role |-> ""]

Resp(kind, remaining, minutes, user, token) ==
  [kind |-> kind, remaining |-> remaining, minutes |-> minutes,
   user |-> user, token |-> token]
Plain(kind) == Resp(kind, 0, 0, NoPrincipal, NoToken)

\* the bcrypt.compare calls one validateUser makes: a role outside the switch
\* returns null from its default branch before the comparison, every other
\* path goes through the one comparison
BcryptCompares(login, password, role) == IF role \notin Roles THEN 0 ELSE 1

\* const hashToCompare = user?.password || this.dummyHash
HashToCompare(login, role, hash) ==
  LET user == FindUnique(role, login)
  IN  IF user # NoUser /\ user.password # NoPassword THEN user.password ELSE hash

\* validateUser without the role-specific eligibility checks
ValidateUserSkipsEligibility(login, password, role) ==
  IF role \notin Roles THEN NoUser
  ELSE LET user == FindUnique(role, login)
           hashToCompare == IF user # NoUser /\ user.password # NoPassword
                            THEN user.password ELSE DummyHash
           isPasswordValid == BcryptCompare(password, hashToCompare)
       IN  IF user = NoUser \/ ~isPasswordValid THEN NoUser ELSE user
\* validateUser(login, password, role): the credential record, or NoUser for
\* the null it returns on every failure path
ValidateUser(login, password, role) ==
  IF role \notin Roles THEN NoUser
  ELSE LET user == FindUnique(role, login)
           hashToCompare == IF user # NoUser /\ user.password # NoPassword
                            THEN user.password ELSE DummyHash
           isPasswordValid == BcryptCompare(password, hashToCompare)
       IN  IF user = NoUser \/ ~isPasswordValid THEN NoUser
           ELSE IF role = "operator" /\ user.status # "active" THEN NoUser
           ELSE IF role = "master" /\ (user.password = NoPassword \/ user.statusWork # Working)
                THEN NoUser
           ELSE user

\* a login whose lock check falls back to locked when the store is unreachable
LoginOutcomeFailClosed(s, F, t, in) ==
  LET lockIdentifier == Identifier(in.login, in.role)
      isLocked == SafeExecute(Call(F, 1, IsAccountLocked(s, lockIdentifier, MAX_LOGIN_ATTEMPTS)), TRUE)
      user == ValidateUser(in.login, in.password, in.role)
      rec == RecordLoginAttempt(s, lockIdentifier, t)
      \* INCR is call 2, EXPIRE (first attempt only) is call 3
      incremented == [s EXCEPT !.att[lockIdentifier] =
                        [n |-> rec.attempts,
                         exp |-> IF @.n = 0 THEN NoExpiry ELSE @.exp]]
      recStore == IF 2 \in F THEN s
                  ELSE IF rec.attempts = 1 /\ 3 \in F THEN incremented
                  ELSE rec.store
      recFailed == 2 \in F \/ (rec.attempts = 1 /\ 3 \in F)
      attempts == SafeExecute([err |-> recFailed, val |-> rec.attempts], 0)
      recCalls == IF 2 \in F \/ rec.attempts # 1 THEN 2 ELSE 3
      remainingAttempts == MAX_LOGIN_ATTEMPTS - attempts
      refreshToken == Sign(Principal(user), t)
  IN  IF isLocked THEN
        IF 2 \in F THEN [store |-> s, resp |-> Plain("StoreError"), calls |-> 2, compares |-> 0]
        ELSE [store |-> s, calls |-> 2, compares |-> 0,
              resp |-> Resp("Locked", 0, SecondsToMinutes(GetLockTTL(s, lockIdentifier, t)),
                            NoPrincipal, NoToken)]
      ELSE IF user = NoUser THEN
        [store |-> recStore, calls |-> recCalls,
         compares |-> BcryptCompares(in.login, in.password, in.role),
         resp |-> IF remainingAttempts > 0 /\ attempts > 0
                    THEN Resp("InvalidCredentials", remainingAttempts, 0, NoPrincipal, NoToken)
                  ELSE IF attempts >= MAX_LOGIN_ATTEMPTS
                    THEN Resp("AttemptsExhausted", 0,
                              LOGIN_ATTEMPTS_TTL \div SECONDS_PER_MINUTE, NoPrincipal, NoToken)
                  ELSE Plain("InvalidCredentials")]
      ELSE
        [store |-> SafeExecute(Call(F, 2, SaveRefreshTokenAndResetAttempts(
                                   s, refreshToken, REFRESH_TOKEN_TTL, lockIdentifier, t)), s),
         calls |-> 2, compares |-> BcryptCompares(in.login, in.password, in.role),
         resp |-> Resp("ok", 0, 0, Principal(user), refreshToken)]
\* a login whose batch also deletes the force-logout flag of the principal
LoginOutcomeClearsFlag(s, F, t, in) ==
  LET lockIdentifier == Identifier(in.login, in.role)
      isLocked == SafeExecute(Call(F, 1, IsAccountLocked(s, lockIdentifier, MAX_LOGIN_ATTEMPTS)), FALSE)
      user == ValidateUser(in.login, in.password, in.role)
      rec == RecordLoginAttempt(s, lockIdentifier, t)
      \* INCR is call 2, EXPIRE (first attempt only) is call 3
      incremented == [s EXCEPT !.att[lockIdentifier] =
                        [n |-> rec.attempts,
                         exp |-> IF @.n = 0 THEN NoExpiry ELSE @.exp]]
      recStore == IF 2 \in F THEN s
                  ELSE IF rec.attempts = 1 /\ 3 \in F THEN incremented
                  ELSE rec.store
      recFailed == 2 \in F \/ (rec.attempts = 1 /\ 3 \in F)
      attempts == SafeExecute([err |-> recFailed, val |-> rec.attempts], 0)
      recCalls == IF 2 \in F \/ rec.attempts # 1 THEN 2 ELSE 3
      remainingAttempts == MAX_LOGIN_ATTEMPTS - attempts
      refreshToken == Sign(Principal(user), t)
  IN  IF isLocked THEN
        IF 2 \in F THEN [store |-> s, resp |-> Plain("StoreError"), calls |-> 2, compares |-> 0]
        ELSE [store |-> s, calls |-> 2, compares |-> 0,
              resp |-> Resp("Locked", 0, SecondsToMinutes(GetLockTTL(s, lockIdentifier, t)),
                            NoPrincipal, NoToken)]
      ELSE IF user = NoUser THEN
        [store |-> recStore, calls |-> recCalls,
         compares |-> BcryptCompares(in.login, in.password, in.role),
         resp |-> IF remainingAttempts > 0 /\ attempts > 0
                    THEN Resp("InvalidCredentials", remainingAttempts, 0, NoPrincipal, NoToken)
                  ELSE IF attempts >= MAX_LOGIN_ATTEMPTS
                    THEN Resp("AttemptsExhausted", 0,
                              LOGIN_ATTEMPTS_TTL \div SECONDS_PER_MINUTE, NoPrincipal, NoToken)
                  ELSE Plain("InvalidCredentials")]
      ELSE
        [store |-> SafeExecute(Call(F, 2, [SaveRefreshTokenAndResetAttempts(
                                   s, refreshToken, REFRESH_TOKEN_TTL, lockIdentifier, t)
                                   EXCEPT !.flag[Principal(user)] = 0]), s),
         calls |-> 2, compares |-> BcryptCompares(in.login, in.password, in.role),
         resp |-> Resp("ok", 0, 0, Principal(user), refreshToken)]
\* a login that validates the credentials and counts a failure before it
\* answers Locked
LoginOutcomeValidatesFirst(s, F, t, in) ==
  LET lockIdentifier == Identifier(in.login, in.role)
      isLocked == SafeExecute(Call(F, 1, IsAccountLocked(s, lockIdentifier, MAX_LOGIN_ATTEMPTS)), FALSE)
      user == ValidateUser(in.login, in.password, in.role)
      rec == RecordLoginAttempt(s, lockIdentifier, t)
      \* INCR is call 2, EXPIRE (first attempt only) is call 3
      incremented == [s EXCEPT !.att[lockIdentifier] =
                        [n |-> rec.attempts,
                         exp |-> IF @.n = 0 THEN NoExpiry ELSE @.exp]]
      recStore == IF 2 \in F THEN s
                  ELSE IF rec.attempts = 1 /\ 3 \in F THEN incremented
                  ELSE rec.store
      recFailed == 2 \in F \/ (rec.attempts = 1 /\ 3 \in F)
      attempts == SafeExecute([err |-> recFailed, val |-> rec.attempts], 0)
      recCalls == IF 2 \in F \/ rec.attempts # 1 THEN 2 ELSE 3
      remainingAttempts == MAX_LOGIN_ATTEMPTS - attempts
      refreshToken == Sign(Principal(user), t)
  IN  IF isLocked THEN
        IF 2 \in F THEN [store |-> s, resp |-> Plain("StoreError"), calls |-> 2, compares |-> 0]
        ELSE [store |-> IF user = NoUser THEN rec.store ELSE s, calls |-> 2,
              compares |-> BcryptCompares(in.login, in.password, in.role),
              resp |-> Resp("Locked", 0, SecondsToMinutes(GetLockTTL(s, lockIdentifier, t)),
                            NoPrincipal, NoToken)]
      ELSE IF user = NoUser THEN
        [store |-> recStore, calls |-> recCalls,
         compares |-> BcryptCompares(in.login, in.password, in.role),
         resp |-> IF remainingAttempts > 0 /\ attempts > 0
                    THEN Resp("InvalidCredentials", remainingAttempts, 0, NoPrincipal, NoToken)
                  ELSE IF attempts >= MAX_LOGIN_ATTEMPTS
                    THEN Resp("AttemptsExhausted", 0,
                              LOGIN_ATTEMPTS_TTL \div SECONDS_PER_MINUTE, NoPrincipal, NoToken)
                  ELSE Plain("InvalidCredentials")]
      ELSE
        [store |-> SafeExecute(Call(F, 2, SaveRefreshTokenAndResetAttempts(
                                   s, refreshToken, REFRESH_TOKEN_TTL, lockIdentifier, t)), s),
         calls |-> 2, compares |-> BcryptCompares(in.login, in.password, in.role),
         resp |-> Resp("ok", 0, 0, Principal(user), refreshToken)]
\* login(loginDto) at second t with failing store calls F: the store it
\* leaves, the response, the store calls it made and the password-hash
\* comparisons its credential validation made
LoginOutcome(s, F, t, in) ==
  LET lockIdentifier == Identifier(in.login, in.role)
      isLocked == SafeExecute(Call(F, 1, IsAccountLocked(s, lockIdentifier, MAX_LOGIN_ATTEMPTS)), FALSE)
      user == ValidateUser(in.login, in.password, in.role)
      rec == RecordLoginAttempt(s, lockIdentifier, t)
      \* INCR is call 2, EXPIRE (first attempt only) is call 3
      incremented == [s EXCEPT !.att[lockIdentifier] =
                        [n |-> rec.attempts,
                         exp |-> IF @.n = 0 THEN NoExpiry ELSE @.exp]]
      recStore == IF 2 \in F THEN s
                  ELSE IF rec.attempts = 1 /\ 3 \in F THEN incremented
                  ELSE rec.store
      recFailed == 2 \in F \/ (rec.attempts = 1 /\ 3 \in F)
      attempts == SafeExecute([err |-> recFailed, val |-> rec.attempts], 0)
      recCalls == IF 2 \in F \/ rec.attempts # 1 THEN 2 ELSE 3
      remainingAttempts == MAX_LOGIN_ATTEMPTS - attempts
      refreshToken == Sign(Principal(user), t)
  IN  IF isLocked THEN
        IF 2 \in F THEN [store |-> s, resp |-> Plain("StoreError"), calls |-> 2, compares |-> 0]
        ELSE [store |-> s, calls |-> 2, compares |-> 0,
              resp |-> Resp("Locked", 0, SecondsToMinutes(GetLockTTL(s, lockIdentifier, t)),
                            NoPrincipal, NoToken)]
      ELSE IF user = NoUser THEN
        [store |-> recStore, calls |-> recCalls,
         compares |-> BcryptCompares(in.login, in.password, in.role),
         resp |-> IF remainingAttempts > 0 /\ attempts > 0
                    THEN Resp("InvalidCredentials", remainingAttempts, 0, NoPrincipal, NoToken)
                  ELSE IF attempts >= MAX_LOGIN_ATTEMPTS
                    THEN Resp("AttemptsExhausted", 0,
                              LOGIN_ATTEMPTS_TTL \div SECONDS_PER_MINUTE, NoPrincipal, NoToken)
                  ELSE Plain("InvalidCredentials")]
      ELSE
        [store |-> SafeExecute(Call(F, 2, SaveRefreshTokenAndResetAttempts(
                                   s, refreshToken, REFRESH_TOKEN_TTL, lockIdentifier, t)), s),
         calls |-> 2, compares |-> BcryptCompares(in.login, in.password, in.role),
         resp |-> Resp("ok", 0, 0, Principal(user), refreshToken)]

\* a rotation that signs the new pair for the administrator with the same id
RefreshOutcomeAsAdmin(s, F, t, tok) ==
  LET p == Owner(tok)
      teardown == RevokeAllCalls(s, p, F, 3)
      s1 == RevokeRefreshTokenWithTracking(s, tok, REVOKED_TOKEN_TRACKING_TTL, t)
      newRefreshToken == Sign([id |-> p.id, role |-> "admin"], t)
      s2 == SaveRefreshToken(s1, newRefreshToken, REFRESH_TOKEN_TTL, t)
      Out(st, resp, calls, deleted, event) ==
        [store |-> st, resp |-> resp, calls |-> calls, deleted |-> deleted, event |-> event]
  IN  IF ~RefreshUnexpired(tok, t) THEN Out(s, Plain("InvalidToken"), 0, {}, "")
      ELSE IF 1 \in F THEN Out(s, Plain("InvalidToken"), 1, {}, "")
      ELSE IF ~IsRefreshTokenValid(s, tok) THEN
        IF 2 \in F THEN Out(s, Plain("InvalidToken"), 2, {}, "")
        ELSE IF WasTokenRecentlyRevoked(s, tok) THEN
          Out(teardown.store,
              IF teardown.err THEN Plain("InvalidToken") ELSE Plain("SecurityViolation"),
              teardown.calls, Live(s) \ Live(teardown.store), "auth.token.reuse")
        ELSE Out(s, Plain("InvalidToken"), 2, {}, "")
      ELSE IF 2 \in F THEN Out(s, Plain("InvalidToken"), 2, {}, "")
      ELSE IF 3 \in F THEN Out(s1, Plain("InvalidToken"), 3, {tok}, "")
      ELSE Out(s2, Resp("ok", 0, 0, NoPrincipal, newRefreshToken), 3, {tok},
               "auth.token.refresh")
\* refreshToken(refreshToken) at second t with failing store calls F.  Every
\* error that is not an UnauthorizedException is rethrown as 'Invalid or
\* expired refresh token'.  deleted: the records the call removed.  event:
\* the audit event the call hands to the audit service, "" for none.
RefreshOutcome(s, F, t, tok) ==
  LET p == Owner(tok)
      teardown == RevokeAllCalls(s, p, F, 3)
      s1 == RevokeRefreshTokenWithTracking(s, tok, REVOKED_TOKEN_TRACKING_TTL, t)
      newRefreshToken == Sign(p, t)
      s2 == SaveRefreshToken(s1, newRefreshToken, REFRESH_TOKEN_TTL, t)
      Out(st, resp, calls, deleted, event) ==
        [store |-> st, resp |-> resp, calls |-> calls, deleted |-> deleted, event |-> event]
  IN  IF ~RefreshUnexpired(tok, t) THEN Out(s, Plain("InvalidToken"), 0, {}, "")
      ELSE IF 1 \in F THEN Out(s, Plain("InvalidToken"), 1, {}, "")
      ELSE IF ~IsRefreshTokenValid(s, tok) THEN
        IF 2 \in F THEN Out(s, Plain("InvalidToken"), 2, {}, "")
        ELSE IF WasTokenRecentlyRevoked(s, tok) THEN
          Out(teardown.store,
              IF teardown.err THEN Plain("InvalidToken") ELSE Plain("SecurityViolation"),
              teardown.calls, Live(s) \ Live(teardown.store), "auth.token.reuse")
        ELSE Out(s, Plain("InvalidToken"), 2, {}, "")
      ELSE IF 2 \in F THEN Out(s, Plain("InvalidToken"), 2, {}, "")
      ELSE IF 3 \in F THEN Out(s1, Plain("InvalidToken"), 3, {tok}, "")
      ELSE Out(s2, Resp("ok", 0, 0, NoPrincipal, newRefreshToken), 3, {tok},
               "auth.token.refresh")

(* ------------------------- CookieJwtAuthGuard ------------------------- *)
\* a guard that rejects the request when the flag check raises
GuardOutcomeFailClosed(s, F, t, tok) ==
  IF ~AccessUnexpired(tok, t) THEN Plain("Unauthorized")
  ELSE IF tok.sub # 0 /\ tok.role # "" /\ (1 \in F \/ IsUserForcedLogout(s, Owner(tok)))
    THEN Plain("Unauthorized")
  ELSE Resp("ok", 0, 0, Owner(tok), NoToken)
\* canActivate + handleRequest for an access token at second t: passport-jwt
\* rejects an expired token, then the force-logout flag is read (call 1) and
\* a store error there is swallowed
GuardOutcome(s, F, t, tok) ==
  IF ~AccessUnexpired(tok, t) THEN Plain("Unauthorized")
  ELSE IF tok.sub # 0 /\ tok.role # "" /\ 1 \notin F /\ IsUserForcedLogout(s, Owner(tok))
    THEN Plain("Unauthorized")
  ELSE Resp("ok", 0, 0, Owner(tok), NoToken)

\* shouldProactivelyRefresh(token)
ShouldProactivelyRefresh(tok, t) ==
  LET timeLeft == (tok.iat + ACCESS_TOKEN_TTL) - t
  IN  timeLeft > 0 /\ timeLeft < REFRESH_THRESHOLD

\* logout(user) behind the guard: revokeAllUserTokens, errors not caught
LogoutOutcome(s, F, t, tok) ==
  LET g == GuardOutcome(s, F, t, tok)
      r == RevokeAllCalls(s, Owner(tok), F, 2)
  IN  IF g.kind # "ok" THEN [store |-> s, resp |-> g, calls |-> 1, deleted |-> {}]
      ELSE [store |-> r.store, calls |-> r.calls, deleted |-> Live(s) \ Live(r.store),
            resp |-> IF r.err THEN Plain("StoreError") ELSE Plain("ok")]

\* AuthService.forceLogout(userId, role, ...): revoke every refresh token of
\* the target, then set the force-logout flag for the access-token lifetime
ForceLogoutService(s, F, t, target, k) ==
  LET r == RevokeAllCalls(s, target, F, k)
  IN  IF r.err THEN r
      ELSE IF r.calls + 1 \in F THEN [store |-> r.store, err |-> TRUE, calls |-> r.calls + 1]
      ELSE [store |-> ForceLogoutUser(r.store, target, FORCE_LOGOUT_TTL, t),
            err |-> FALSE, calls |-> r.calls + 1]

\* the endpoint without its check of the caller's role
ForceLogoutOutcomeAnyCaller(s, F, t, tok, target) ==
  LET g == GuardOutcome(s, F, t, tok)
      r == ForceLogoutService(s, F, t, target, 2)
  IN  IF g.kind # "ok" THEN [store |-> s, resp |-> g, calls |-> 1, deleted |-> {}]
      ELSE [store |-> r.store, calls |-> r.calls, deleted |-> Live(s) \ Live(r.store),
            resp |-> IF r.err THEN Plain("StoreError") ELSE Plain("ok")]
\* AuthController.forceLogout behind the guard
ForceLogoutOutcome(s, F, t, tok, target) ==
  LET g == GuardOutcome(s, F, t, tok)
      r == ForceLogoutService(s, F, t, target, 2)
  IN  IF g.kind # "ok" THEN [store |-> s, resp |-> g, calls |-> 1, deleted |-> {}]
      ELSE IF tok.role # "admin"
        THEN [store |-> s, resp |-> Plain("Forbidden"), calls |-> 1, deleted |-> {}]
      ELSE [store |-> r.store, calls |-> r.calls, deleted |-> Live(s) \ Live(r.store),
            resp |-> IF r.err THEN Plain("StoreError") ELSE Plain("ok")]

\* getProfile(user) behind the guard: the cache is read (call 2) and, on a
\* miss, the profile is loaded from the database and written back (call 3),
\* both through safeExecute.  lookup: whether the database was asked.
GetProfileOutcome(s, F, t, tok) ==
  LET g == GuardOutcome(s, F, t, tok)
      p == Owner(tok)
      cached == SafeExecute(Call(F, 2, IF HasKey(s, p) THEN JsonParse(Get(s, p))
                                       ELSE NoProfile), NoProfile)
      profile == FindProfile(p.role, p.id)
      Out(st, resp, calls, lookup, data) ==
        [store |-> st, resp |-> resp, calls |-> calls, lookup |-> lookup, data |-> data]
  IN  IF g.kind # "ok" THEN Out(s, g, 1, FALSE, NoProfile)
      ELSE IF cached # NoProfile THEN Out(s, g, 2, FALSE, cached)
      ELSE IF profile = NoProfile THEN Out(s, Plain("Unauthorized"), 2, TRUE, NoProfile)
      ELSE Out(SafeExecute(Call(F, 3, Set(s, p, JsonStringify(profile), PROFILE_CACHE_TTL, t)), s),
               g, 3, TRUE, profile)

(* -------------------- ProactiveRefreshInterceptor --------------------- *)
\* intercept, after a guarded request whose cookie token is about to expire:
\* a new pair is signed and the refresh token saved (call 2); an error is
\* logged and the response goes out without new cookies
ProactiveOutcome(s, F, t, tok) ==
  LET g == GuardOutcome(s, F, t, tok)
      newRefreshToken == Sign(Owner(tok), t)
  IN  IF g.kind # "ok" THEN [store |-> s, resp |-> g, calls |-> 1]
      ELSE IF ~ShouldProactivelyRefresh(tok, t) THEN [store |-> s, resp |-> g, calls |-> 1]
      ELSE IF 2 \in F THEN [store |-> s, resp |-> g, calls |-> 2]
      ELSE [store |-> SaveRefreshToken(s, newRefreshToken, REFRESH_TOKEN_TTL, t),
            resp |-> Resp("ok", 0, 0, Owner(tok), newRefreshToken), calls |-> 2]

(* ------------------------------ the state ----------------------------- *)
\* store   the session store
\* now     the clock, in seconds
\* issued  the token pairs handed to clients so far (a pair is signed in one
\*         second, and is written as the token of that principal and second)
\* dead    the refresh tokens whose record a rotation or revocation deleted
\* fails   per identifier, the failed logins of the current throttle window
\*         as a client counts them: n attempts, the first at second start;
\*         sync is FALSE once a store call of a login of that identifier failed
\* forcedAt per principal, the second of the last force logout that completed,
\*         Never before the first
\* lookups per principal, the database lookups getProfile made for it: the
\*         second of the last one (at) and of the last one whose write-back
\*         to the cache executed (saved), Never before the first
\* last    the request served last and its response; failed: the calls of
\*         it that raised (store calls from 1, the audit row's database
\*         write as call 0); event: the audit event it logged, "" for none;
\*         compares: the password-hash comparisons it made
\*         hash: the hash its comparison was handed, "" without one
\* dummyHash AuthService's field of that name: Unset until the hash the
\*         constructor asked for has been assigned
\* reqs    the refreshToken calls in flight (SpecRace): where each stands
\*         (pc), the token it redeems, the members SMEMBERS gave it, the
\*         calls that were in flight at some moment of its own flight (over),
\*         and its response; and the login calls in flight (SpecLoginRace):
\*         the credentials submitted (in) and the count INCR answered
\*         (attempts)
MaxCalls == 6
Calls == 1..MaxCalls
\* outages: the store becomes unreachable at some call of a request and stays
\* so for the rest of that request (k = MaxCalls + 1: it stays reachable)
FaultPatterns == {k..MaxCalls : k \in 1..(MaxCalls + 1)}

Never == -1
NoLookup == [at |-> Never, saved |-> Never]
NoStreak == [n |-> 0, start |-> 0, sync |-> TRUE]
Idle == [pc |-> "idle", tok |-> NoToken, tokens |-> {}, over |-> {}, resp |-> Plain("none"),
         in |-> NoInput, attempts |-> 0]

Served(op, in, tok, target, failed, pre, resp) ==
  [op |-> op, in |-> in, tok |-> tok, target |-> target, failed |-> failed,
   pre |-> pre, resp |-> resp, event |-> "", compares |-> 0, hash |-> ""]

\* the audit call a handler makes without awaiting it, after the awaited part
\* of the handler has made out.calls store calls
Audit(out, F, t, eventType, userId) ==
  IF eventType = "" THEN [store |-> out.store, rejected |-> FALSE, calls |-> out.calls,
                          wrote |-> FALSE]
  ELSE AuditLog(out.store, F, t, eventType, userId, out.calls + 1)

\* the calls of a request that raised: its store calls and the database write
Raised(F, a) == F \cap ((1..a.calls) \cup (IF a.wrote THEN {0} ELSE {}))

\* a rejected promise that nothing awaits or catches is an unhandled
\* rejection: the process ends, before or after the response has left
Exits(a) == IF a.rejected THEN BOOLEAN ELSE {FALSE}
Reply(resp, exit) == IF exit THEN Plain("ProcessExit") ELSE resp

LoginEvent(resp) ==
  IF resp.kind = "ok" THEN "auth.login.success"
  ELSE IF resp.kind = "Locked" THEN "auth.login.blocked"
  ELSE IF resp.kind \in {"InvalidCredentials", "AttemptsExhausted"} THEN "auth.login.failed"
  ELSE ""

\* the service once its start has completed
Init ==
  /\ store = EmptyStore
  /\ now = 0
  /\ issued = {}
  /\ dead = {}
  /\ fails = [i \in Identifiers |-> NoStreak]
  /\ forcedAt = [p \in Principals |-> Never]
  /\ lookups = [p \in Principals |-> NoLookup]
  /\ last = Served("none", NoInput, NoToken, NoPrincipal, {}, NoStreak, Plain("none"))
  /\ reqs = [r \in 1..MaxReq |-> Idle]
  /\ dummyHash = DummyHash

\* a request may hand out a pair only while the bound on pairs allows it
MayIssue(resp) ==
  resp.token # NoToken => (resp.token \in issued \/ Cardinality(issued) < MaxIssued)

Hand(resp) == IF resp.token # NoToken THEN issued \cup {resp.token} ELSE issued

Min(a, b) == IF a < b THEN a ELSE b

Counted(streak, failed, resp, t) ==
  IF resp.kind = "ok" THEN [n |-> 0, start |-> 0, sync |-> failed = {}]
  ELSE IF resp.kind \in {"InvalidCredentials", "AttemptsExhausted"} THEN
    IF failed # {} THEN [streak EXCEPT !.sync = FALSE]
    ELSE IF streak.n = 0 \/ t >= streak.start + LOGIN_ATTEMPTS_TTL
      THEN [streak EXCEPT !.n = 1, !.start = t]
    ELSE [streak EXCEPT !.n = Min(@ + 1, MAX_LOGIN_ATTEMPTS)]
  ELSE streak

Login(in, F) ==
  LET out == LoginOutcome(store, F, now, in)
      a == Audit(out, F, now, LoginEvent(out.resp), out.resp.user.id)
      id == Identifier(in.login, in.role)
      failed == F \cap 1..out.calls
  IN  /\ MayIssue(out.resp)
      /\ store' = a.store
      /\ issued' = Hand(out.resp)
      /\ fails' = [fails EXCEPT ![id] = Counted(@, failed, out.resp, now)]
      /\ last' = [Served("login", in, NoToken, NoPrincipal, Raised(F, a), fails[id], out.resp)
                    EXCEPT !.event = LoginEvent(out.resp), !.compares = out.compares,
                           !.hash = IF out.compares = 0 THEN ""
                                    ELSE HashToCompare(in.login, in.role, dummyHash)]
      /\ UNCHANGED <<now, dead, forcedAt, reqs, lookups, dummyHash>>

Refresh(tok, F) ==
  LET out == RefreshOutcome(store, F, now, tok)
      a == Audit(out, F, now, out.event, tok.sub)
  IN  /\ tok \in issued
      /\ \E exit \in Exits(a) :
           /\ MayIssue(Reply(out.resp, exit))
           /\ issued' = Hand(Reply(out.resp, exit))
           /\ last' = [Served("refresh", NoInput, tok, NoPrincipal, Raised(F, a),
                               NoStreak, Reply(out.resp, exit))
                         EXCEPT !.event = out.event]
      /\ store' = a.store
      /\ dead' = dead \cup out.deleted
      /\ UNCHANGED <<now, fails, forcedAt, reqs, lookups, dummyHash>>

Validate(tok, F) ==
  /\ tok \in issued
  /\ last' = Served("validate", NoInput, tok, NoPrincipal, F \cap {1}, NoStreak,
                    GuardOutcome(store, F, now, tok))
  /\ UNCHANGED <<store, now, issued, dead, fails, forcedAt, reqs, lookups, dummyHash>>

Logout(tok, F) ==
  LET out == LogoutOutcome(store, F, now, tok)
      event == IF out.resp.kind = "ok" THEN "auth.logout" ELSE ""
      a == Audit(out, F, now, event, tok.sub)
  IN  /\ tok \in issued
      /\ store' = a.store
      /\ dead' = dead \cup out.deleted
      /\ last' = [Served("logout", NoInput, tok, NoPrincipal, Raised(F, a),
                          NoStreak, out.resp)
                    EXCEPT !.event = event]
      /\ UNCHANGED <<now, issued, fails, forcedAt, reqs, lookups, dummyHash>>

ForceLogout(tok, target, F) ==
  LET out == ForceLogoutOutcome(store, F, now, tok, target)
      event == IF out.resp.kind = "ok" THEN "auth.force_logout" ELSE ""
      a == Audit(out, F, now, event, target.id)
  IN  /\ tok \in issued
      /\ store' = a.store
      /\ dead' = dead \cup out.deleted
      /\ forcedAt' = IF out.resp.kind = "ok" THEN [forcedAt EXCEPT ![target] = now]
                     ELSE forcedAt
      /\ last' = [Served("forceLogout", NoInput, tok, target, Raised(F, a),
                          NoStreak, out.resp)
                    EXCEPT !.event = event]
      /\ UNCHANGED <<now, issued, fails, reqs, lookups, dummyHash>>

ProactiveRefresh(tok, F) ==
  LET out == ProactiveOutcome(store, F, now, tok)
  IN  /\ tok \in issued
      /\ ShouldProactivelyRefresh(tok, now)
      /\ MayIssue(out.resp)
      /\ store' = out.store
      /\ issued' = Hand(out.resp)
      /\ last' = Served("proactive", NoInput, tok, NoPrincipal, F \cap 1..out.calls,
                        NoStreak, out.resp)
      /\ UNCHANGED <<now, dead, fails, forcedAt, reqs, lookups, dummyHash>>

GetProfile(tok, F) ==
  LET out == GetProfileOutcome(store, F, now, tok)
      event == IF out.resp.kind = "ok" THEN "auth.profile.access" ELSE ""
      a == Audit(out, F, now, event, tok.sub)
  IN  /\ tok \in issued
      /\ store' = a.store
      /\ lookups' = IF out.lookup /\ out.resp.kind = "ok"
                      THEN [lookups EXCEPT ![Owner(tok)] =
                             [at |-> now, saved |-> IF 3 \in F THEN @.saved ELSE now]]
                    ELSE lookups
      /\ \E exit \in Exits(a) :
           last' = [op |-> "profile", in |-> NoInput, tok |-> tok, target |-> NoPrincipal,
                    failed |-> Raised(F, a), pre |-> NoStreak,
                    resp |-> Reply(out.resp, exit), event |-> event, compares |-> 0, hash |-> "",
                    lookup |-> out.lookup, data |-> out.data]
      /\ UNCHANGED <<now, issued, dead, fails, forcedAt, reqs, dummyHash>>

Tick ==
  /\ \E t \in Times : t > now /\ now' = t
  /\ store' = Expire(store, now')
  /\ last' = Served("tick", NoInput, NoToken, NoPrincipal, {}, NoStreak, Plain("none"))
  /\ UNCHANGED <<issued, dead, fails, forcedAt, reqs, lookups, dummyHash>>

(* ------------- refreshToken, one store round trip at a time ----------- *)
InFlight(r) == reqs[r].pc \notin {"idle", "done"}

Step(r, pc) == [reqs EXCEPT ![r].pc = pc]
Answer(r, resp) == [reqs EXCEPT ![r].pc = "done", ![r].resp = resp]

\* jwtService.verify, up to the await of isRefreshTokenValid
RaceBegin(r, tok) ==
  LET others == {q \in DOMAIN reqs : InFlight(q)}
  IN  /\ reqs[r].pc = "idle"
      /\ tok \in issued
      /\ RefreshUnexpired(tok, now)
      /\ reqs' = [q \in DOMAIN reqs |->
                    IF q = r THEN [Idle EXCEPT !.pc = "isValid", !.tok = tok, !.over = others]
                    ELSE IF q \in others THEN [reqs[q] EXCEPT !.over = @ \cup {r}]
                    ELSE reqs[q]]
      /\ UNCHANGED <<store, now, issued, dead, fails, forcedAt, last, lookups, dummyHash>>

\* await this.redis.isRefreshTokenValid(...)
RaceIsValid(r) ==
  /\ reqs[r].pc = "isValid"
  /\ reqs' = Step(r, IF IsRefreshTokenValid(store, reqs[r].tok) THEN "revoke" ELSE "wasRevoked")
  /\ UNCHANGED <<store, now, issued, dead, fails, forcedAt, last, lookups, dummyHash>>

\* await this.redis.wasTokenRecentlyRevoked(...)
RaceWasRevoked(r) ==
  /\ reqs[r].pc = "wasRevoked"
  /\ reqs' = IF WasTokenRecentlyRevoked(store, reqs[r].tok) THEN Step(r, "members")
              ELSE Answer(r, Plain("InvalidToken"))
  /\ UNCHANGED <<store, now, issued, dead, fails, forcedAt, last, lookups, dummyHash>>

\* revokeAllUserTokens: await this.redis.smembers(userTokensSet)
RaceMembers(r) ==
  LET tokens == store.uset[Owner(reqs[r].tok)].m
  IN  /\ reqs[r].pc = "members"
      /\ reqs' = IF tokens = {} THEN Answer(r, Plain("SecurityViolation"))
                  ELSE [reqs EXCEPT ![r].pc = "delAll", ![r].tokens = tokens]
      /\ UNCHANGED <<store, now, issued, dead, fails, forcedAt, last, lookups, dummyHash>>

\* revokeAllUserTokens: the pipeline that deletes the members read and the set
RaceDelAll(r) ==
  LET tokens == reqs[r].tokens
      p == Owner(reqs[r].tok)
  IN  /\ reqs[r].pc = "delAll"
      /\ store' = [store EXCEPT !.rt = {x \in @ : x.tok \notin tokens},
                                 !.uset[p] = [m |-> {}, exp |-> 0]]
      /\ dead' = dead \cup (Live(store) \cap tokens)
      /\ reqs' = Answer(r, Plain("SecurityViolation"))
      /\ UNCHANGED <<now, issued, fails, forcedAt, last, lookups, dummyHash>>

\* await this.redis.revokeRefreshTokenWithTracking(...)
RaceRevoke(r) ==
  /\ reqs[r].pc = "revoke"
  /\ store' = RevokeRefreshTokenWithTracking(store, reqs[r].tok, REVOKED_TOKEN_TRACKING_TTL, now)
  /\ dead' = dead \cup (Live(store) \cap {reqs[r].tok})
  /\ reqs' = Step(r, "save")
  /\ UNCHANGED <<now, issued, fails, forcedAt, last, lookups, dummyHash>>

\* the new pair is signed, then await this.redis.saveRefreshToken(...)
RaceSave(r) ==
  LET newRefreshToken == Sign(Owner(reqs[r].tok), now)
      resp == Resp("ok", 0, 0, NoPrincipal, newRefreshToken)
  IN  /\ reqs[r].pc = "save"
      /\ MayIssue(resp)
      /\ store' = SaveRefreshToken(store, newRefreshToken, REFRESH_TOKEN_TTL, now)
      /\ issued' = Hand(resp)
      /\ reqs' = Answer(r, resp)
      /\ UNCHANGED <<now, dead, fails, forcedAt, last, lookups, dummyHash>>

\* the response leaves; the slot serves the next call
RaceReturn(r) ==
  /\ reqs[r].pc = "done"
  /\ last' = Served("refresh", NoInput, reqs[r].tok, NoPrincipal, {}, NoStreak, reqs[r].resp)
  /\ reqs' = [reqs EXCEPT ![r] = Idle]
  /\ UNCHANGED <<store, now, issued, dead, fails, forcedAt, lookups, dummyHash>>

(* ----------------- login, one store round trip at a time -------------- *)
\* the request arrives, up to the await of isAccountLocked
LoginBegin(r, in) ==
  /\ reqs[r].pc = "idle"
  /\ reqs' = [reqs EXCEPT ![r] = [Idle EXCEPT !.pc = "isLocked", !.in = in]]
  /\ UNCHANGED <<store, now, issued, dead, fails, forcedAt, last, lookups, dummyHash>>

\* await this.redis.safeExecute(() => this.redis.isAccountLocked(...))
LoginIsLocked(r) ==
  LET id == Identifier(reqs[r].in.login, reqs[r].in.role)
  IN  /\ reqs[r].pc = "isLocked"
      /\ reqs' = Step(r, IF IsAccountLocked(store, id, MAX_LOGIN_ATTEMPTS) THEN "lockTTL"
                         ELSE "validate")
      /\ UNCHANGED <<store, now, issued, dead, fails, forcedAt, last, lookups, dummyHash>>

\* await this.redis.getLockTTL(lockIdentifier), then the ForbiddenException
LoginLockTTL(r) ==
  LET id == Identifier(reqs[r].in.login, reqs[r].in.role)
  IN  /\ reqs[r].pc = "lockTTL"
      /\ reqs' = [reqs EXCEPT ![r].pc = "answered",
                              ![r].resp = Resp("Locked", 0,
                                SecondsToMinutes(GetLockTTL(store, id, now)),
                                NoPrincipal, NoToken)]
      /\ UNCHANGED <<store, now, issued, dead, fails, forcedAt, last, lookups, dummyHash>>

\* await this.validateUser(login, password, role): a call that fails is
\* counted for the identifier
LoginValidate(r) ==
  LET in == reqs[r].in
      id == Identifier(in.login, in.role)
      user == ValidateUser(in.login, in.password, in.role)
  IN  /\ reqs[r].pc = "validate"
      /\ reqs' = Step(r, IF user = NoUser THEN "incr" ELSE "save")
      /\ fails' = IF user = NoUser THEN [fails EXCEPT ![id].n = @ + 1] ELSE fails
      /\ UNCHANGED <<store, now, issued, dead, forcedAt, last, lookups, dummyHash>>

\* the response login builds from the count recordLoginAttempt answered
FailedResponse(attempts) ==
  LET remainingAttempts == MAX_LOGIN_ATTEMPTS - attempts
  IN  IF remainingAttempts > 0 /\ attempts > 0
        THEN Resp("InvalidCredentials", remainingAttempts, 0, NoPrincipal, NoToken)
      ELSE IF attempts >= MAX_LOGIN_ATTEMPTS
        THEN Resp("AttemptsExhausted", 0, LOGIN_ATTEMPTS_TTL \div SECONDS_PER_MINUTE,
                  NoPrincipal, NoToken)
      ELSE Plain("InvalidCredentials")

\* recordLoginAttempt: await this.client.incr(key)
LoginIncr(r) ==
  LET id == Identifier(reqs[r].in.login, reqs[r].in.role)
      attempts == store.att[id].n + 1
  IN  /\ reqs[r].pc = "incr"
      /\ store' = [store EXCEPT !.att[id] =
                     [n |-> attempts, exp |-> IF @.n = 0 THEN NoExpiry ELSE @.exp]]
      /\ reqs' = IF attempts = 1
                   THEN [reqs EXCEPT ![r].pc = "expire", ![r].attempts = attempts]
                 ELSE [reqs EXCEPT ![r].pc = "answered", ![r].attempts = attempts,
                                   ![r].resp = FailedResponse(attempts)]
      /\ UNCHANGED <<now, issued, dead, fails, forcedAt, last, lookups, dummyHash>>

\* recordLoginAttempt: await this.client.expire(key, ttl), after an INCR that
\* answered 1
LoginExpire(r) ==
  LET id == Identifier(reqs[r].in.login, reqs[r].in.role)
  IN  /\ reqs[r].pc = "expire"
      /\ store' = IF store.att[id].n > 0
                    THEN [store EXCEPT !.att[id].exp = now + LOGIN_ATTEMPTS_TTL]
                  ELSE store
      /\ reqs' = [reqs EXCEPT ![r].pc = "answered",
                              ![r].resp = FailedResponse(reqs[r].attempts)]
      /\ UNCHANGED <<now, issued, dead, fails, forcedAt, last, lookups, dummyHash>>

\* the pair is signed, then await saveRefreshTokenAndResetAttempts(...): the
\* counter is deleted and a new window begins
LoginSave(r) ==
  LET in == reqs[r].in
      id == Identifier(in.login, in.role)
      user == ValidateUser(in.login, in.password, in.role)
      refreshToken == Sign(Principal(user), now)
      resp == Resp("ok", 0, 0, Principal(user), refreshToken)
  IN  /\ reqs[r].pc = "save"
      /\ MayIssue(resp)
      /\ store' = SaveRefreshTokenAndResetAttempts(store, refreshToken, REFRESH_TOKEN_TTL,
                                                   id, now)
      /\ issued' = Hand(resp)
      /\ fails' = [fails EXCEPT ![id] = NoStreak]
      /\ reqs' = [reqs EXCEPT ![r].pc = "answered", ![r].resp = resp]
      /\ UNCHANGED <<now, dead, forcedAt, last, lookups, dummyHash>>

\* the response leaves; the slot serves the next call
LoginReturn(r) ==
  /\ reqs[r].pc = "answered"
  /\ last' = [Served("login", reqs[r].in, NoToken, NoPrincipal, {}, NoStreak, reqs[r].resp)
                EXCEPT !.event = LoginEvent(reqs[r].resp)]
  /\ reqs' = [reqs EXCEPT ![r] = Idle]
  /\ UNCHANGED <<store, now, issued, dead, fails, forcedAt, lookups, dummyHash>>

(* ---------------- logout, one store round trip at a time -------------- *)
\* the guard: passport-jwt, then the force-logout flag is read
LogoutBegin(r, tok) ==
  LET g == GuardOutcome(store, {}, now, tok)
  IN  /\ reqs[r].pc = "idle"
      /\ tok \in issued
      /\ reqs' = [reqs EXCEPT ![r] =
                    IF g.kind = "ok" THEN [Idle EXCEPT !.pc = "logoutMembers", !.tok = tok]
                    ELSE [Idle EXCEPT !.pc = "loggedOut", !.tok = tok, !.resp = g]]
      /\ UNCHANGED <<store, now, issued, dead, fails, forcedAt, last, lookups, dummyHash>>

\* revokeAllUserTokens: await this.client.smembers(userTokensSet)
LogoutMembers(r) ==
  LET tokens == store.uset[Owner(reqs[r].tok)].m
  IN  /\ reqs[r].pc = "logoutMembers"
      /\ reqs' = IF tokens = {}
                   THEN [reqs EXCEPT ![r].pc = "loggedOut", ![r].resp = Plain("ok")]
                 ELSE [reqs EXCEPT ![r].pc = "logoutDelAll", ![r].tokens = tokens]
      /\ UNCHANGED <<store, now, issued, dead, fails, forcedAt, last, lookups, dummyHash>>

\* revokeAllUserTokens: the pipeline that deletes the members read and the set
LogoutDelAll(r) ==
  LET tokens == reqs[r].tokens
      p == Owner(reqs[r].tok)
  IN  /\ reqs[r].pc = "logoutDelAll"
      /\ store' = [store EXCEPT !.rt = {x \in @ : x.tok \notin tokens},
                                 !.uset[p] = [m |-> {}, exp |-> 0]]
      /\ dead' = dead \cup (Live(store) \cap tokens)
      /\ reqs' = [reqs EXCEPT ![r].pc = "loggedOut", ![r].resp = Plain("ok")]
      /\ UNCHANGED <<now, issued, fails, forcedAt, last, lookups, dummyHash>>

\* the response leaves; the slot serves the next call
LogoutReturn(r) ==
  /\ reqs[r].pc = "loggedOut"
  /\ last' = [Served("logout", NoInput, reqs[r].tok, NoPrincipal, {}, NoStreak, reqs[r].resp)
                EXCEPT !.event = IF reqs[r].resp.kind = "ok" THEN "auth.logout" ELSE ""]
  /\ reqs' = [reqs EXCEPT ![r] = Idle]
  /\ UNCHANGED <<store, now, issued, dead, fails, forcedAt, lookups, dummyHash>>

(* --------------------------- specifications --------------------------- *)
Input(login, password, role) == [login |-> login, password |-> password, role |-> role]
PrincipalOf(in) == Principal(FindUnique(in.role, in.login))

\* Spec: the sessions of one operator: login, rotation, logout, proactive
\* rotation and validation, every store call of which may fail
SessionInputs == {Input("olga", "pw", "operator")}

Next ==
  \/ \E in \in SessionInputs, F \in FaultPatterns : Login(in, F)
  \/ \E tok \in issued, F \in FaultPatterns : Refresh(tok, F)
  \/ \E tok \in issued, F \in FaultPatterns : Validate(tok, F)
  \/ \E tok \in issued, F \in FaultPatterns : Logout(tok, F)
  \/ \E tok \in issued, F \in FaultPatterns : ProactiveRefresh(tok, F)
  \/ Tick

Spec == Init /\ [][Next]_vars

\* SpecForce: an administrator and an operator that share the id 1; the
\* administrator forces either of them out
ForceInputs == {Input("root", "pw", "admin"), Input("olga", "pw", "operator")}
ForceTargets == {PrincipalOf(in) : in \in ForceInputs}
Reachable == {{}, Calls}

NextForce ==
  \/ \E in \in ForceInputs : Login(in, {})
  \/ \E tok \in issued, F \in Reachable : Validate(tok, F)
  \/ \E tok \in issued, target \in ForceTargets : ForceLogout(tok, target, {})
  \/ Tick

SpecForce == Init /\ [][NextForce]_vars
\* SpecThrottle: logins of an active and of an inactive operator, with right
\* and wrong passwords, the store reachable
ThrottleInputs ==
  {Input("olga", "pw", "operator"), Input("olga", "bad", "operator"),
   Input("oleg", "pw", "operator")}

NextThrottle ==
  \/ \E in \in ThrottleInputs : Login(in, {})
  \/ Tick

SpecThrottle == Init /\ [][NextThrottle]_vars

\* SpecOutage: logins for one identifier with the right and a wrong password,
\* every store call of which may fail
OutageInputs == {Input("olga", "pw", "operator"), Input("olga", "bad", "operator")}

NextOutage ==
  \/ \E in \in OutageInputs, F \in FaultPatterns : Login(in, F)
  \/ Tick

SpecOutage == Init /\ [][NextOutage]_vars

\* SpecProfile: the profile requests of an operator and of a director, every
\* store call of which may fail
ProfileInputs == {Input("olga", "pw", "operator"), Input("dora", "pw", "director")}

NextProfile ==
  \/ \E in \in ProfileInputs : Login(in, {})
  \/ \E tok \in issued, F \in FaultPatterns : GetProfile(tok, F)
  \/ Tick

SpecProfile == Init /\ [][NextProfile]_vars

\* SpecRace: the refreshToken calls of one operator, interleaved at every
\* store round trip
NextRace ==
  \/ \E in \in SessionInputs : Login(in, {})
  \/ \E r \in DOMAIN reqs, tok \in issued : RaceBegin(r, tok)
  \/ \E r \in DOMAIN reqs : RaceIsValid(r)
  \/ \E r \in DOMAIN reqs : RaceWasRevoked(r)
  \/ \E r \in DOMAIN reqs : RaceMembers(r)
  \/ \E r \in DOMAIN reqs : RaceDelAll(r)
  \/ \E r \in DOMAIN reqs : RaceRevoke(r)
  \/ \E r \in DOMAIN reqs : RaceSave(r)
  \/ \E r \in DOMAIN reqs : RaceReturn(r)
  \/ Tick

SpecRace == Init /\ [][NextRace]_vars

(* ------------------------ refresh-token rotation ---------------------- *)
\* C1: of the refreshToken calls that redeem the same token and overlap in
\* time, at most one is answered with a new pair.
C1_AtMostOneConcurrentRedemption ==
  \A r1 \in DOMAIN reqs : \A r2 \in reqs[r1].over :
    (reqs[r1].tok = reqs[r2].tok /\ reqs[r1].pc = "done" /\ reqs[r2].pc = "done")
      => ~(reqs[r1].resp.kind = "ok" /\ reqs[r2].resp.kind = "ok")

\* the refresh tokens of principal p that have a record in store s
LiveOf(s, p) == {tok \in Live(s) : Owner(tok) = p}

\* C2: when a refresh token has just been redeemed, redeeming it a second time
\* (the store reachable, the tombstone still there) answers SecurityViolation
\* and leaves its owner without any live refresh token.
C2_ReplayIsSecurityViolation ==
  (last.op = "refresh" /\ last.resp.kind = "ok") =>
    LET replay == RefreshOutcome(store, {}, now, last.tok)
    IN  /\ replay.resp.kind = "SecurityViolation"
        /\ LiveOf(replay.store, Owner(last.tok)) = {}

\* C3: after a redemption was answered SecurityViolation, no access token of
\* that principal passes validate() any more.
C3_ValidateFailsAfterTeardown ==
  (last.op = "refresh" /\ last.resp.kind = "SecurityViolation") =>
    \A tok \in issued :
      Owner(tok) = Owner(last.tok) => GuardOutcome(store, {}, now, tok).kind # "ok"

\* C4: a refresh token whose record a rotation, a logout or a teardown has
\* deleted is never live again and refreshToken() never accepts it again.
C4_DeadStaysDead ==
  \A tok \in dead :
    /\ tok \notin Live(store)
    /\ RefreshOutcome(store, {}, now, tok).resp.kind # "ok"

\* C5 as the spec states it: a login that answers with a token pair has
\* written the record of the refresh token it returns.
C5_LoginNeverReturnsUnrecordedToken ==
  (last.op = "login" /\ last.resp.kind = "ok") => last.resp.token \in Live(store)

\* C5, amended: when the persist batch of a login with valid credentials
\* fails, login still answers with the token pair, and the store is left as
\* it was: the batch wrote no record and did not reset the attempt counter.
C5_FailedPersistIsSwallowed ==
  [][(last'.op = "login" /\ 2 \in last'.failed) =>
       /\ last'.resp.kind = "ok"
       /\ last'.resp.token = Sign(PrincipalOf(last'.in), now)
       /\ store' = store]_vars

C5_Witness ==
  /\ last.op = "login"
  /\ 2 \in last.failed
  /\ last.resp.kind = "ok"
  /\ last.resp.token \notin Live(store)

Eligible(in) ==
  /\ in.role \in Roles
  /\ LET u == FindUnique(in.role, in.login)
     IN  /\ u # NoUser
         /\ u.password # NoPassword
         /\ u.password = in.password
         /\ in.role = "operator" => u.status = "active"
         /\ in.role = "master" => u.statusWork = Working

IdOf(in) == Identifier(in.login, in.role)

\* C7: when the failed logins counted for an identifier in the current window
\* have reached the maximum, a login with correct credentials for that
\* identifier is answered Locked (the store reachable throughout).
C7_LockedAfterMaxFailures ==
  ( /\ last.op = "login"
    /\ Eligible(last.in)
    /\ last.failed = {}
    /\ last.pre.sync
    /\ last.pre.n >= MAX_LOGIN_ATTEMPTS
    /\ now < last.pre.start + LOGIN_ATTEMPTS_TTL )
  => last.resp.kind = "Locked"

C7_Witness ==
  /\ last.op = "login"
  /\ Eligible(last.in)
  /\ last.failed = {}
  /\ last.pre.sync
  /\ last.pre.n = MAX_LOGIN_ATTEMPTS
  /\ now < last.pre.start + LOGIN_ATTEMPTS_TTL
  /\ last.resp.kind = "Locked"

\* C8: a login that succeeds and whose store batch executed leaves the
\* attempt counter of its identifier cleared and the new refresh token live;
\* and an identifier is answered Locked only when the failures counted since
\* its last success have reached the maximum.
C8_SuccessClearsCounter ==
  /\ (last.op = "login" /\ last.resp.kind = "ok" /\ last.failed = {}) =>
       /\ GetLoginAttempts(store, IdOf(last.in)) = 0
       /\ last.resp.token \in Live(store)
  /\ (last.op = "login" /\ last.resp.kind = "Locked" /\ last.pre.sync) =>
       last.pre.n >= MAX_LOGIN_ATTEMPTS

C8_Witness ==
  /\ last.op = "login"
  /\ last.resp.kind = "ok"
  /\ last.failed = {}
  /\ last.pre.sync
  /\ last.pre.n > 0
  /\ last.pre.n < MAX_LOGIN_ATTEMPTS
  /\ GetLoginAttempts(store, IdOf(last.in)) = 0

\* one failing login for each cause of failure
Probes ==
  {Input("nobody", "pw", "operator"), Input("olga", "bad", "operator"),
   Input("olga", "pw", "guest"), Input("oleg", "pw", "operator"),
   Input("moe", "pw", "master"), Input("mia", "pw", "master"),
   Input("root", "pw", "director")}

\* store s with the attempt counter of in2's identifier put in the state
\* that in1's identifier has
SameCounter(s, in1, in2) == [s EXCEPT !.att[IdOf(in2)] = s.att[IdOf(in1)]]

C10_ValidLoginSucceeds ==
  /\ \A in \in LoginInput :
       (Eligible(in) /\ ~IsAccountLocked(store, IdOf(in), MAX_LOGIN_ATTEMPTS)) =>
         LET out == LoginOutcome(store, {}, now, in)
         IN  /\ out.resp.kind = "ok"
             /\ out.resp.user = PrincipalOf(in)
             /\ out.resp.user.role = in.role
             /\ out.resp.token \in Live(out.store)
  /\ (last.op = "login" /\ Eligible(last.in) /\ last.failed = {}
        /\ last.resp.kind # "Locked") =>
       /\ last.resp.kind = "ok"
       /\ last.resp.user.role = last.in.role
       /\ last.resp.token \in Live(store)

C10_Witness ==
  /\ last.op = "login"
  /\ Eligible(last.in)
  /\ last.failed = {}
  /\ last.pre.n > 0
  /\ last.resp.kind = "ok"
  /\ last.resp.user.role = last.in.role
  /\ last.resp.token \in Live(store)

(* ------------------------------- logout ------------------------------- *)
\* C11: once a logout of a principal has completed, no refresh token that had
\* been issued to that principal by then has a record again: whatever is
\* served next, none of them is live afterwards.
C11_LoggedOutTokensStayRevoked ==
  [][(last.op = "logout" /\ last.resp.kind = "ok") =>
       \A tok \in issued :
         Owner(tok) = Owner(last.tok) => tok \notin Live(store) \cup Live(store')]_vars

(* ---------------------------- store outages --------------------------- *)
\* the answers the interface documents
Documented ==
  {"ok", "InvalidCredentials", "AttemptsExhausted", "Locked", "InvalidToken",
   "SecurityViolation", "Forbidden", "Unauthorized", "none"}

\* C13: whichever store calls of a request fail, the caller is answered with
\* a success or with one of the documented errors, never with the store's
\* own error.
C13_NoStoreErrorReachesCaller == last.resp.kind \in Documented

C20_EveryTerminalStateLeavesTombstone ==
  [][now' = now => \A tok \in Live(store) \ Live(store') : tok \in Tombstoned(store')]_vars

\* C20, amended: a redemption that deletes the record of its token writes a
\* tombstone for it that expires one tracking window later; a tombstone stays
\* until its expiry; and no other request (logout, reuse teardown) writes one.
C20_RotationLeavesTombstone ==
  [][/\ (last'.op = "refresh" /\ last'.tok \in Live(store)
           /\ (last'.resp.kind = "ok" \/ last'.tok \notin Live(store'))) =>
          [tok |-> last'.tok, exp |-> now + REVOKED_TOKEN_TRACKING_TTL] \in store'.revoked
     /\ \A x \in store.revoked :
          now' < x.exp => \E y \in store'.revoked : y.tok = x.tok /\ y.exp >= x.exp
     /\ (last'.op # "refresh" \/ last'.resp.kind = "SecurityViolation") =>
          store'.revoked \subseteq store.revoked]_vars

C20_Witness ==
  /\ last.op = "tick"
  /\ now > 1
  /\ \E x \in store.revoked :
       /\ x.tok \notin Live(store)
       /\ x.exp <= 1 + REVOKED_TOKEN_TRACKING_TTL
       /\ RefreshOutcome(store, {}, now, x.tok).resp.kind = "SecurityViolation"

(* ------------------------ force logout, continued --------------------- *)
\* C16: when the store is unreachable at the guard's flag check, an access
\* token that is unexpired is accepted, whether or not a force-logout flag
\* is there for its principal.
C16_FlagCheckFailsOpen ==
  /\ (last.op = "validate" /\ 1 \in last.failed /\ AccessUnexpired(last.tok, now)) =>
       /\ last.resp.kind = "ok"
       /\ last.resp.user = Owner(last.tok)
  /\ \A tok \in issued :
       AccessUnexpired(tok, now) => GuardOutcome(store, {1}, now, tok).kind = "ok"

C16_Witness ==
  /\ last.op = "validate"
  /\ 1 \in last.failed
  /\ IsUserForcedLogout(store, Owner(last.tok))
  /\ GuardOutcome(store, {}, now, last.tok).kind = "Unauthorized"
  /\ last.resp.kind = "ok"

C18_ForceLogoutNeedsAdmin ==
  [][(last'.op = "forceLogout" /\ last'.tok.role # "admin") =>
       /\ store' = store
       /\ forcedAt' = forcedAt
       /\ last'.resp.kind =
            IF GuardOutcome(store, last'.failed, now, last'.tok).kind = "ok"
              THEN "Forbidden" ELSE "Unauthorized"]_vars

C18_Witness ==
  /\ last.op = "forceLogout"
  /\ last.tok.role = "operator"
  /\ last.resp.kind = "Forbidden"
  /\ LiveOf(store, last.target) # {}
  /\ ~IsUserForcedLogout(store, last.target)

(* ------------------------ store outages, continued -------------------- *)
\* C14: safeExecute hands back the operation's result when the operation
\* succeeds and the fallback value, without raising, when it raises.  Seen
\* from a failed login: the attempt count it reports is the one
\* recordLoginAttempt returned when the store answered, and the fallback 0
\* (no count in the response) when a store call of it raised.
C14_SafeExecuteFallsBack ==
  /\ \A F \in FaultPatterns, k \in Calls, in \in OutageInputs :
       LET locked == IsAccountLocked(store, IdOf(in), MAX_LOGIN_ATTEMPTS)
           attempts == GetLoginAttempts(store, IdOf(in))
       IN  /\ SafeExecute(Call(F, k, locked), FALSE) = (k \notin F /\ locked)
           /\ SafeExecute(Call(F, k, attempts), 0) = IF k \in F THEN 0 ELSE attempts
  /\ (last.op = "login" /\ last.resp.kind = "InvalidCredentials") =>
       last.resp.remaining =
         IF last.failed # {} THEN 0
         ELSE MAX_LOGIN_ATTEMPTS - GetLoginAttempts(store, IdOf(last.in))

C14_Witness ==
  /\ last.op = "login"
  /\ last.resp.kind = "InvalidCredentials"
  /\ last.failed = {2}
  /\ last.resp.remaining = 0
  /\ GetLoginAttempts(store, IdOf(last.in)) > 0

\* C15: when the store is unreachable, login is not answered Locked: the
\* credentials decide the answer, and a login with valid credentials
\* succeeds even for an identifier whose counter had reached the maximum.
C15_LockCheckFailsOpen ==
  (last.op = "login" /\ 1 \in last.failed) =>
    /\ last.resp.kind \notin {"Locked", "AttemptsExhausted", "StoreError"}
    /\ Eligible(last.in) =>
         (last.resp.kind = "ok" /\ last.resp.user = PrincipalOf(last.in))
    /\ ~Eligible(last.in) => last.resp.kind = "InvalidCredentials"

C15_Witness ==
  /\ last.op = "login"
  /\ 1 \in last.failed
  /\ Eligible(last.in)
  /\ IsAccountLocked(store, IdOf(last.in), MAX_LOGIN_ATTEMPTS)
  /\ LoginOutcome(store, {}, now, last.in).resp.kind = "Locked"
  /\ last.resp.kind = "ok"

(* ---------------------------- profile cache --------------------------- *)
\* C12: a getProfile served with the store reachable asks the database
\* exactly when no lookup for its principal has been written back to the
\* cache yet, or the last one that was is a cache TTL or more ago; otherwise
\* it answers from the cache; either way the payload is the principal's
\* profile.
C12_ProfileCacheHitsWithinTTL ==
  [][(last'.op = "profile" /\ last'.resp.kind = "ok" /\ last'.failed = {}) =>
       LET g == lookups[Owner(last'.tok)]
       IN  /\ last'.lookup = (g.saved = Never \/ now >= g.saved + PROFILE_CACHE_TTL)
           /\ last'.data = FindProfile(last'.tok.role, last'.tok.sub)]_vars

C12_Witness ==
  /\ last.op = "profile"
  /\ last.resp.kind = "ok"
  /\ last.failed = {}
  /\ ~last.lookup
  /\ lookups[Owner(last.tok)].saved # Never
  /\ now > lookups[Owner(last.tok)].saved
  /\ last.data = FindProfile(last.tok.role, last.tok.sub)

(* ------------------------- credential validation ---------------------- *)
\* SpecRoles: logins that fail for a role the service does not know, for a
\* login name without a record and for an ineligible record, next to a valid
\* one, the store reachable
ValidationInputs ==
  {Input("olga", "pw", "guest"), Input("nobody", "pw", "operator"),
   Input("olga", "pw", "operator")}

NextRoles ==
  \/ \E in \in ValidationInputs : Login(in, {})
  \/ Tick

SpecRoles == Init /\ [][NextRoles]_vars

\* C21: every login that reaches credential validation (it is not answered
\* Locked) makes exactly one password-hash comparison, whatever the claimed
\* role and whether or not a record is found.
C21_ExactlyOneComparison ==
  (last.op = "login" /\ last.resp.kind \notin {"Locked", "StoreError"}) =>
    last.compares = 1

(* ----------------------- advisory flags and tombstones ---------------- *)
\* SpecAdvisory: an administrator and an operator; logins, validations and
\* redemptions, force logouts by the administrator; the store may be
\* unreachable for a validation, and for a redemption once its record
\* lookup has been answered
AfterLookup == {{}, 2..MaxCalls}

NextAdvisory ==
  \/ \E in \in ForceInputs : Login(in, {})
  \/ \E tok \in issued, F \in Reachable : Validate(tok, F)
  \/ \E tok \in issued, F \in AfterLookup : Refresh(tok, F)
  \/ \E tok \in issued, target \in ForceTargets : ForceLogout(tok, target, {})
  \/ Tick

SpecAdvisory == Init /\ [][NextAdvisory]_vars

\* store s once every force-logout flag and every tombstone has expired
WithoutAdvisory(s) ==
  [s EXCEPT !.flag = [p \in Principals |-> 0], !.revoked = {}]

DatabaseFaults == {{}, {0}}
AuditFaults == DatabaseFaults \cup {k..MaxCalls : k \in 3..(MaxCalls - 1)}

NextAudit ==
  \/ \E in \in SessionInputs, F \in DatabaseFaults : Login(in, F)
  \/ \E tok \in issued, F \in AuditFaults : Refresh(tok, F)
  \/ \E tok \in issued, F \in DatabaseFaults : Logout(tok, F)
  \/ \E tok \in issued, F \in AuditFaults : GetProfile(tok, F)
  \/ Tick

SpecAudit == Init /\ [][NextAudit]_vars

Audited == {"login", "refresh", "logout", "profile", "forceLogout"}

\* the awaited part of the handler of request l, served from the current
\* store with the calls of l that raised
AwaitedPart(l) ==
  LET out == CASE l.op = "login" -> LoginOutcome(store, l.failed, now, l.in)
               [] l.op = "refresh" -> RefreshOutcome(store, l.failed, now, l.tok)
               [] l.op = "logout" -> LogoutOutcome(store, l.failed, now, l.tok)
               [] l.op = "profile" -> GetProfileOutcome(store, l.failed, now, l.tok)
               [] l.op = "forceLogout" ->
                    ForceLogoutOutcome(store, l.failed, now, l.tok, l.target)
  IN  [store |-> out.store, resp |-> out.resp, calls |-> out.calls]

\* C23: when a call of the audit sink raises (a store call of it, or its
\* database write), the caller gets the answer the handler had computed and
\* the session store is left as the handler left it.
C23_AuditFailureChangesNothing ==
  [][last'.op \in Audited =>
       LET out == AwaitedPart(last')
       IN  last'.failed \ (1..out.calls) # {} =>
             /\ last'.resp = out.resp
             /\ [store' EXCEPT !.audit = store.audit] = out.store]_vars

(* ------------------------ force logout and login ---------------------- *)
\* C24: a login that succeeds leaves no force-logout flag for its principal,
\* so the access token it returns passes validate().
C24_LoginClearsFlag ==
  (last.op = "login" /\ last.resp.kind = "ok" /\ last.failed = {}) =>
    /\ ~IsUserForcedLogout(store, last.resp.user)
    /\ GuardOutcome(store, {}, now, last.resp.token).kind = "ok"

C26_ProactiveRotationRedeems ==
  [][(last'.op = "proactive" /\ last'.resp.token # NoToken) =>
       /\ last'.resp.token \in Live(store')
       /\ last'.tok \in Live(store') => last'.tok = last'.resp.token
       /\ Cardinality(LiveOf(store', Owner(last'.tok)))
            <= Cardinality(LiveOf(store, Owner(last'.tok)))]_vars

(* ------------------- refresh-token rotation, continued ---------------- *)
\* C27: a redemption of an unexpired token that has neither a record nor a
\* tombstone is answered InvalidToken, not SecurityViolation, and leaves the
\* store as it was, whichever of its store calls fail: no record is deleted
\* and no tombstone written.
C27_UnknownTokenIsInvalidToken ==
  [][(last'.op = "refresh" /\ RefreshUnexpired(last'.tok, now)
        /\ last'.tok \notin Live(store) /\ last'.tok \notin Tombstoned(store)) =>
       /\ last'.resp = Plain("InvalidToken")
       /\ store' = store
       /\ dead' = dead]_vars

C27_Witness ==
  /\ last.op = "refresh"
  /\ last.failed = {}
  /\ RefreshUnexpired(last.tok, now)
  /\ last.tok \notin Live(store) \cup Tombstoned(store)
  /\ last.resp.kind = "InvalidToken"
  /\ LiveOf(store, Owner(last.tok)) # {}

\* C28: a login that is answered Locked has not run the credential
\* validation (no password-hash comparison was made) and leaves the store as
\* it was: the counter of its identifier and the counter's expiry included.
C28_LockedLoginHasNoSideEffect ==
  [][(last'.op = "login" /\ last'.resp.kind = "Locked") =>
       /\ last'.compares = 0
       /\ store'.att = store.att
       /\ store' = store
       /\ fails' = fails]_vars

C28_Witness ==
  /\ last.op = "login"
  /\ last.resp.kind = "Locked"
  /\ Eligible(last.in)
  /\ last.compares = 0
  /\ store.att[IdOf(last.in)].n = MAX_LOGIN_ATTEMPTS
  /\ store.att[IdOf(last.in)].exp > now

\* C29: every attempt counter that exists has an expiry, whichever store
\* calls of the logins that wrote it failed.
C29_CounterAlwaysExpires ==
  \A i \in Identifiers : store.att[i].n > 0 => store.att[i].exp # NoExpiry

\* SpecCounters: an administrator and an operator; the operator's logins
\* with the right and a wrong password, the operator's redemptions and
\* logouts, the administrator's force logouts, the store reachable
CounterInputs ==
  {Input("root", "pw", "admin"), Input("olga", "pw", "operator"),
   Input("olga", "bad", "operator")}

\* the SMEMBERS of a logout (its call 2) may fail, which sends the teardown
\* down its SCAN fallback
MembersFaults == {{}, {2}}

OperatorTokens ==
  {tok \in issued : Owner(tok) = PrincipalOf(Input("olga", "pw", "operator"))}

NextCounters ==
  \/ \E in \in CounterInputs : Login(in, {})
  \/ \E tok \in OperatorTokens : Refresh(tok, {})
  \/ \E tok \in OperatorTokens, F \in MembersFaults : Logout(tok, F)
  \/ \E tok \in issued \ OperatorTokens, target \in ForceTargets :
       ForceLogout(tok, target, {})
  \/ Tick

SpecCounters == Init /\ [][NextCounters]_vars

\* C30: the attempt counter of an identifier goes down only when its key
\* expires or when a login of that identifier succeeds and its batch
\* executes; failed and locked logins, redemptions, logouts and force
\* logouts leave every counter at least as high as it was.
C30_OnlySuccessClearsCounter ==
  [][\A i \in Identifiers :
       GetLoginAttempts(store', i) < GetLoginAttempts(store, i) =>
         \/ now' > now
         \/ /\ last'.op = "login"
            /\ last'.resp.kind = "ok"
            /\ IdOf(last'.in) = i
            /\ GetLoginAttempts(store', i) = 0]_vars

C30_Witness ==
  /\ last.op \in {"logout", "forceLogout"}
  /\ last.resp.kind = "ok"
  /\ LET i == Identifier("olga", "operator")
     IN  /\ GetLoginAttempts(store, i) > 0
         /\ store.att[i].exp > now
         /\ last.op = "forceLogout" => last.target = PrincipalOf(Input("olga", "pw", "operator"))
         /\ last.op = "logout" => Owner(last.tok) = PrincipalOf(Input("olga", "pw", "operator"))

\* C31: a login that leaves an existing counter in place leaves its expiry
\* as it was, and a counter that has reached the maximum expires, no later
\* than one window after the current second.
C31_LockoutEndsWithinWindow ==
  [][\A i \in Identifiers :
       /\ (now' = now /\ store.att[i].n > 0 /\ store'.att[i].n > 0) =>
            store'.att[i].exp = store.att[i].exp
       /\ IsAccountLocked(store', i, MAX_LOGIN_ATTEMPTS) =>
            /\ store'.att[i].exp # NoExpiry
            /\ store'.att[i].exp <= now' + LOGIN_ATTEMPTS_TTL]_vars

(* ----------------------- login throttle, concurrent ------------------- *)
\* SpecLoginRace: the logins of one identifier with the right and a wrong
\* password, within one second, interleaved at every round trip
NextLoginRace ==
  \/ \E r \in DOMAIN reqs, in \in OutageInputs : LoginBegin(r, in)
  \/ \E r \in DOMAIN reqs : LoginIsLocked(r)
  \/ \E r \in DOMAIN reqs : LoginLockTTL(r)
  \/ \E r \in DOMAIN reqs : LoginValidate(r)
  \/ \E r \in DOMAIN reqs : LoginIncr(r)
  \/ \E r \in DOMAIN reqs : LoginExpire(r)
  \/ \E r \in DOMAIN reqs : LoginSave(r)
  \/ \E r \in DOMAIN reqs : LoginReturn(r)

SpecLoginRace == Init /\ [][NextLoginRace]_vars

\* C32: between two successful logins of an identifier, within one window,
\* validateUser fails for it at most MAX_LOGIN_ATTEMPTS times, however the
\* login calls interleave.
C32_AtMostMaxFailedValidations ==
  \A i \in Identifiers : fails[i].n <= MAX_LOGIN_ATTEMPTS

(* ------------------------- teardown, concurrent ----------------------- *)
\* SpecTeardown: the logouts of one operator, interleaved at every round
\* trip with its logins and redemptions
NextTeardown ==
  \/ \E in \in SessionInputs : Login(in, {})
  \/ \E tok \in issued : Refresh(tok, {})
  \/ \E r \in DOMAIN reqs, tok \in issued : LogoutBegin(r, tok)
  \/ \E r \in DOMAIN reqs : LogoutMembers(r)
  \/ \E r \in DOMAIN reqs : LogoutDelAll(r)
  \/ \E r \in DOMAIN reqs : LogoutReturn(r)
  \/ Tick

SpecTeardown == Init /\ [][NextTeardown]_vars

\* C33: when the delete batch of a logout executes, no refresh token of the
\* principal that had a record before it has one after it, whichever logins
\* and redemptions of the principal completed since the logout began.
C33_TeardownDeletesEveryPersistedToken ==
  [][\A r \in DOMAIN reqs :
       (reqs[r].pc = "logoutDelAll" /\ reqs'[r].pc = "loggedOut") =>
         LiveOf(store', Owner(reqs[r].tok)) = {}]_vars

(* ------------------------------ token sets ---------------------------- *)
\* C34: every refresh-token record is a member of its principal's token set,
\* and the set expires no earlier than the record.
C34_LiveTokensAreIndexed ==
  \A x \in store.rt :
    /\ x.tok \in store.uset[Owner(x.tok)].m
    /\ store.uset[Owner(x.tok)].exp >= x.exp

(* ------------------------- tombstones, continued ---------------------- *)
\* C35: no refresh token has a record and a tombstone at the same time.
C35_LiveAndTombstonedDisjoint == Live(store) \cap Tombstoned(store) = {}

(* ------------------------- teardown, frame ---------------------------- *)
\* the principal a teardown is for
TornDown(l) == IF l.op = "forceLogout" THEN l.target ELSE Owner(l.tok)

\* what the store holds for principal q: records, token set, tombstones, flag
HeldFor(s, q) ==
  [rt      |-> {x \in s.rt : Owner(x.tok) = q},
   uset    |-> s.uset[q],
   revoked |-> {x \in s.revoked : Owner(x.tok) = q},
   flag    |-> s.flag[q]]

\* C36: a logout, a force logout and a reuse teardown leave the records, the
\* token set, the tombstones and the flag of every principal other than the
\* one they are for as they were, a principal with the same id under another
\* role included.
C36_TeardownTouchesOnePrincipal ==
  [][(\/ last'.op \in {"logout", "forceLogout"}
      \/ (last'.op = "refresh" /\ last'.resp.kind = "SecurityViolation")) =>
       \A q \in Principals \ {TornDown(last')} : HeldFor(store', q) = HeldFor(store, q)]_vars

C36_Witness ==
  /\ last.op \in {"logout", "forceLogout"}
  /\ last.resp.kind = "ok"
  /\ TornDown(last) = PrincipalOf(Input("olga", "pw", "operator"))
  /\ \E tok \in dead : Owner(tok) = TornDown(last)
  /\ LiveOf(store, TornDown(last)) = {}
  /\ LiveOf(store, PrincipalOf(Input("root", "pw", "admin"))) # {}

(* ------------------------- rotation, the payload ---------------------- *)
\* SpecPayload: the logins and redemptions of an operator and of a director,
\* the store reachable
NextPayload ==
  \/ \E in \in ProfileInputs : Login(in, {})
  \/ \E tok \in issued : Refresh(tok, {})
  \/ Tick

SpecPayload == Init /\ [][NextPayload]_vars

C38_CacheFailureStillAnswers ==
  (last.op = "profile" /\ (2 \in last.failed \/ (last.lookup /\ 3 \in last.failed))) =>
    /\ last.resp.kind = "ok"
    /\ last.lookup
    /\ last.data = FindProfile(last.tok.role, last.tok.sub)

(* ------------------------------- start-up ----------------------------- *)
\* the service right after AuthService's constructor has returned: the
\* initialisation of the dummy hash has been started and not awaited
Constructed ==
  /\ store = EmptyStore
  /\ now = 0
  /\ issued = {}
  /\ dead = {}
  /\ fails = [i \in Identifiers |-> NoStreak]
  /\ forcedAt = [p \in Principals |-> Never]
  /\ lookups = [p \in Principals |-> NoLookup]
  /\ last = Served("none", NoInput, NoToken, NoPrincipal, {}, NoStreak, Plain("none"))
  /\ reqs = [r \in 1..MaxReq |-> Idle]
  /\ dummyHash = Unset

\* initializeDummyHash resumes after its await: bcrypt.hash has resolved, or
\* has raised and the static hash is taken
InitializeDummyHash ==
  /\ dummyHash = Unset
  /\ \E hash \in {DummyHash, FallbackHash} : dummyHash' = hash
  /\ UNCHANGED <<store, now, issued, dead, fails, forcedAt, lookups, last, reqs>>

\* SpecStartup: logins served from the moment the service listens, for a
\* login name without a record and for a valid one, the store reachable
StartupInputs == {Input("nobody", "pw", "operator"), Input("olga", "pw", "operator")}

NextStartup ==
  \/ InitializeDummyHash
  \/ \E in \in StartupInputs : Login(in, {})
  \/ Tick

SpecStartup == Constructed /\ [][NextStartup]_vars

\* C39: the dummy hash is assigned once, and every comparison validateUser
\* makes is handed a hash: never the unset field.
C39_DummyHashSetBeforeUse ==
  [][/\ dummyHash' # dummyHash => dummyHash = Unset
     /\ (last'.op = "login" /\ last'.compares > 0) => last'.hash # Unset]_vars
====
